---- MODULE Spec2Model ----
(***************************************************************************)
(* css-explore (src/css_explore/main.py): the untyped tree of the CSS      *)
(* parser is converted to Charset / Rule / KeyFrames / KeyFrame /          *)
(* MediaQuery / Property nodes and rendered back to text.                  *)
(*                                                                         *)
(* A text (python str) is a sequence of one-character strings.  A dict is  *)
(* a function from its keys; a list or tuple is a sequence.                *)
(***************************************************************************)
EXTENDS Integers, Sequences, FiniteSets, TLC

VARIABLES
    pc,                  \* position of the caller in main / format_css
    caller,              \* "main" (command line) or "api" (format_css called directly)
    ignore_charset,      \* kwargs of format_css
    ignore_empty_rules,
    sheet_rules,         \* sheet['rules']: the untyped tree the parser printed
    rules,               \* the converted nodes (format_css, line 221)
    result,              \* the text format_css returned
    printed,             \* what main handed to print
    error,               \* the exception that left format_css
    text,                \* argument of indent
    indented,            \* indent applied `level` times to text
    level

vars == <<pc, caller, ignore_charset, ignore_empty_rules, sheet_rules, rules,
          result, printed, error, text, indented, level>>

(***************************************************************************)
(* Bounds of the model.                                                    *)
(***************************************************************************)
MaxTop == 2        \* top-level nodes of a stylesheet
MaxKids == 2       \* nodes inside one media block
MaxDepth == 2      \* media blocks nested in media blocks
MaxDecls == 2      \* declarations of a rule
MaxFrames == 2     \* keyframe blocks of a keyframes block
MaxTextLen == 5    \* characters of a text handed to indent directly
MaxLevel == 2      \* times indent is applied to it

SeqUpTo(S, n) == UNION {[1..k -> S] : k \in 0..n}

(***************************************************************************)
(* Texts.                                                                  *)
(***************************************************************************)
NL == "\n"
SP == " "

\* str.splitlines() splits at these; "\r\n" is one boundary.  The other
\* boundaries of a unicode str (\v, \x1c, \x1d, \x1e, \x85, \u2028, \u2029)
\* behave like "\f".
LineBoundaries == {"\n", "\r", "\f"}

\* str.rstrip() removes these
Whitespace == {" ", "\t", "\n", "\r", "\f"}

RECURSIVE Concat(_)
Concat(ts) == IF ts = <<>> THEN <<>> ELSE Head(ts) \o Concat(Tail(ts))

RECURSIVE Join(_, _)
Join(sep, ts) ==
    IF ts = <<>> THEN <<>>
    ELSE IF Len(ts) = 1 THEN ts[1]
    ELSE ts[1] \o sep \o Join(sep, Tail(ts))

\* the characters that start a line break, and those that end one
BreakStarts(t) ==
    {i \in DOMAIN t : t[i] \in LineBoundaries
                      /\ ~(t[i] = "\n" /\ i > 1 /\ t[i - 1] = "\r")}
BreakEnds(t) ==
    {i \in DOMAIN t : t[i] \in LineBoundaries
                      /\ ~(t[i] = "\r" /\ i < Len(t) /\ t[i + 1] = "\n")}

\* the k-th smallest element of a set of numbers
Kth(S, k) == CHOOSE x \in S : Cardinality({y \in S : y < x}) = k - 1

\* str.splitlines(): the pieces between the breaks, the breaks dropped; a
\* piece after the last break counts only when it is not empty
splitlines(t) ==
    LET starts == BreakStarts(t)
        ends == BreakEnds(t)
        n == Cardinality(starts)
        last == IF n = 0 THEN 0 ELSE Kth(ends, n)
        First(k) == IF k = 1 THEN 1 ELSE Kth(ends, k - 1) + 1
        Stop(k) == IF k <= n THEN Kth(starts, k) - 1 ELSE Len(t)
        count == IF last < Len(t) THEN n + 1 ELSE n
    IN  [k \in 1..count |-> SubSeq(t, First(k), Stop(k))]

IndentWidth == 4
FourSpaces == [i \in 1..IndentWidth |-> SP]

\* the variant that keeps the empty piece after a final newline: text.split('\n')
indent_split(t) ==
    LET lines == IF t # <<>> /\ t[Len(t)] \in LineBoundaries
                 THEN Append(splitlines(t), <<>>) ELSE splitlines(t)
    IN  Join(<<NL>>, [i \in DOMAIN lines |-> FourSpaces \o lines[i]]) \o <<NL>>

indent(t) ==
    LET lines == splitlines(t)
    IN  Join(<<NL>>, [i \in DOMAIN lines |-> FourSpaces \o lines[i]]) \o <<NL>>

\* nothing stripped
rstrip_none(t) == t

RECURSIVE rstrip(_)
rstrip(t) ==
    IF t # <<>> /\ t[Len(t)] \in Whitespace THEN rstrip(SubSeq(t, 1, Len(t) - 1))
    ELSE t

(***************************************************************************)
(* Nodes (the namedtuples) and exceptions.                                 *)
(***************************************************************************)
Charset(charset) == [cls |-> "Charset", charset |-> charset]
KeyFrame(values, properties) ==
    [cls |-> "KeyFrame", values |-> values, properties |-> properties]
KeyFrames(vendor, name, keyframes) ==
    [cls |-> "KeyFrames", vendor |-> vendor, name |-> name, keyframes |-> keyframes]
MediaQuery(media, rs) == [cls |-> "MediaQuery", media |-> media, rules |-> rs]
Rule(selectors, properties) ==
    [cls |-> "Rule", selectors |-> selectors, properties |-> properties]
Property(name, value) == [cls |-> "Property", name |-> name, value |-> value]

NoError == [exc |-> "None"]
KeyError(k) == [exc |-> "KeyError", key |-> k]
\* assert set(d) <= set(keys), (set(d), set(keys))
KeysAssertionError(got, allowed) ==
    [exc |-> "AssertionError", got |-> got, allowed |-> allowed]
\* assert declaration_dict['type'] == 'declaration', declaration_dict['type']
TypeAssertionError(t) == [exc |-> "AssertionError", type |-> t]
CalledProcessError(returncode) == [exc |-> "CalledProcessError", returncode |-> returncode]

\* a call either returns a value or raises
Ok(v) == [ok |-> TRUE, val |-> v]
Raise(e) == [ok |-> FALSE, err |-> e]

\* the elements that raise left out
TupleOf_skip(r) ==
    LET good == SelectSeq([i \in DOMAIN r |-> i], LAMBDA i : r[i].ok)
    IN  Ok([k \in DOMAIN good |-> r[good[k]].val])

\* tuple(... for x in s), r being the outcome of each element's call: the
\* values in order, or the first exception raised
TupleOf(r) ==
    LET bad == {i \in DOMAIN r : ~r[i].ok}
    IN  IF bad = {} THEN Ok([i \in DOMAIN r |-> r[i].val])
        ELSE r[CHOOSE i \in bad : \A j \in bad : i <= j]

CommaSpace == <<",", SP>>

(***************************************************************************)
(* The converters.                                                         *)
(***************************************************************************)
\* without the two keys every record may carry
check_keys_strict(d, keys) ==
    IF DOMAIN d \subseteq keys THEN Ok("None")
    ELSE Raise(KeysAssertionError(DOMAIN d, keys))

_check_keys(d, keys) ==
    LET all == keys \cup {"position", "type"}
    IN  IF DOMAIN d \subseteq all THEN Ok("None")
        ELSE Raise(KeysAssertionError(DOMAIN d, all))

\* without the assertion on the type
to_property_untyped(declaration_dict) ==
    LET c == _check_keys(declaration_dict, {"property", "value"})
    IN  IF ~c.ok THEN c
        ELSE IF "property" \notin DOMAIN declaration_dict THEN Raise(KeyError("property"))
        ELSE IF "value" \notin DOMAIN declaration_dict THEN Raise(KeyError("value"))
        ELSE Ok(Property(declaration_dict.property, declaration_dict.value))

to_property(declaration_dict) ==
    IF "type" \notin DOMAIN declaration_dict THEN Raise(KeyError("type"))
    ELSE IF declaration_dict.type # "declaration"
         THEN Raise(TypeAssertionError(declaration_dict.type))
    ELSE LET c == _check_keys(declaration_dict, {"property", "value"})
         IN  IF ~c.ok THEN c
             ELSE IF "property" \notin DOMAIN declaration_dict
                  THEN Raise(KeyError("property"))
             ELSE IF "value" \notin DOMAIN declaration_dict
                  THEN Raise(KeyError("value"))
             ELSE Ok(Property(declaration_dict.property, declaration_dict.value))

to_charset(charset_dict) ==
    LET c == _check_keys(charset_dict, {"charset"})
    IN  IF ~c.ok THEN c
        ELSE IF "charset" \notin DOMAIN charset_dict THEN Raise(KeyError("charset"))
        ELSE Ok(Charset(charset_dict.charset))

to_keyframe(keyframe_dict) ==
    LET c == _check_keys(keyframe_dict, {"declarations", "values"})
    IN  IF ~c.ok THEN c
        ELSE IF "declarations" \notin DOMAIN keyframe_dict
             THEN Raise(KeyError("declarations"))
        ELSE LET properties == TupleOf([i \in DOMAIN keyframe_dict.declarations |-> to_property(keyframe_dict.declarations[i])])
             IN  IF ~properties.ok THEN properties
                 ELSE IF "values" \notin DOMAIN keyframe_dict
                      THEN Raise(KeyError("values"))
                 ELSE Ok(KeyFrame(Join(CommaSpace, keyframe_dict.values),
                                  properties.val))

\* keyframes_dict['vendor'] in place of keyframes_dict.get('vendor', '')
to_keyframes_vendor_required(keyframes_dict) ==
    LET c == _check_keys(keyframes_dict, {"vendor", "name", "keyframes"})
    IN  IF ~c.ok THEN c
        ELSE IF "keyframes" \notin DOMAIN keyframes_dict
             THEN Raise(KeyError("keyframes"))
        ELSE LET keyframes == TupleOf([i \in DOMAIN keyframes_dict.keyframes |-> to_keyframe(keyframes_dict.keyframes[i])])
             IN  IF ~keyframes.ok THEN keyframes
                 ELSE IF "vendor" \notin DOMAIN keyframes_dict
                      THEN Raise(KeyError("vendor"))
                 ELSE IF "name" \notin DOMAIN keyframes_dict
                      THEN Raise(KeyError("name"))
                 ELSE Ok(KeyFrames(keyframes_dict.vendor, keyframes_dict.name,
                                   keyframes.val))

to_keyframes(keyframes_dict) ==
    LET c == _check_keys(keyframes_dict, {"vendor", "name", "keyframes"})
    IN  IF ~c.ok THEN c
        ELSE IF "keyframes" \notin DOMAIN keyframes_dict
             THEN Raise(KeyError("keyframes"))
        ELSE LET keyframes == TupleOf([i \in DOMAIN keyframes_dict.keyframes |-> to_keyframe(keyframes_dict.keyframes[i])])
             IN  IF ~keyframes.ok THEN keyframes
                 ELSE IF "name" \notin DOMAIN keyframes_dict
                      THEN Raise(KeyError("name"))
                 ELSE Ok(KeyFrames(
                         IF "vendor" \in DOMAIN keyframes_dict
                         THEN keyframes_dict.vendor ELSE <<>>,
                         keyframes_dict.name,
                         keyframes.val))

\* sorted(rule_dict['selectors']) in place of rule_dict['selectors']
RECURSIVE SortTexts(_)
SortTexts(ts) ==
    IF ts = <<>> THEN <<>>
    ELSE LET Less(a, b) == \/ Len(a) < Len(b)
                           \/ Len(a) = Len(b) /\ \E k \in 1..Len(a) :
                                  /\ \A j \in 1..(k - 1) : a[j] = b[j]
                                  /\ a[k] = "x" /\ b[k] = "z"
             m == CHOOSE i \in DOMAIN ts : \A j \in DOMAIN ts : ~Less(ts[j], ts[i])
         IN  <<ts[m]>> \o SortTexts([i \in 1..(Len(ts) - 1) |->
                                       IF i < m THEN ts[i] ELSE ts[i + 1]])

to_rule_sorted(rule_dict) ==
    LET c == _check_keys(rule_dict, {"selectors", "declarations"})
    IN  IF ~c.ok THEN c
        ELSE IF "selectors" \notin DOMAIN rule_dict THEN Raise(KeyError("selectors"))
        ELSE IF "declarations" \notin DOMAIN rule_dict
             THEN Raise(KeyError("declarations"))
        ELSE LET properties == TupleOf([i \in DOMAIN rule_dict.declarations |-> to_property(rule_dict.declarations[i])])
             IN  IF ~properties.ok THEN properties
                 ELSE Ok(Rule(Join(CommaSpace, SortTexts(rule_dict.selectors)),
                              properties.val))

to_rule(rule_dict) ==
    LET c == _check_keys(rule_dict, {"selectors", "declarations"})
    IN  IF ~c.ok THEN c
        ELSE IF "selectors" \notin DOMAIN rule_dict THEN Raise(KeyError("selectors"))
        ELSE IF "declarations" \notin DOMAIN rule_dict
             THEN Raise(KeyError("declarations"))
        ELSE LET properties == TupleOf([i \in DOMAIN rule_dict.declarations |-> to_property(rule_dict.declarations[i])])
             IN  IF ~properties.ok THEN properties
                 ELSE Ok(Rule(Join(CommaSpace, rule_dict.selectors), properties.val))

TO_NODE_TYPES ==
    [charset |-> "to_charset", keyframes |-> "to_keyframes",
     media |-> "to_media_query", rule |-> "to_rule"]

RECURSIVE generic_to_node(_)
RECURSIVE to_media_query(_)

to_media_query(media_query_dict) ==
    LET c == _check_keys(media_query_dict, {"media", "rules"})
    IN  IF ~c.ok THEN c
        ELSE IF "rules" \notin DOMAIN media_query_dict THEN Raise(KeyError("rules"))
        ELSE LET rs == TupleOf([i \in DOMAIN media_query_dict.rules |-> generic_to_node(media_query_dict.rules[i])])
             IN  IF ~rs.ok THEN rs
                 ELSE IF "media" \notin DOMAIN media_query_dict
                      THEN Raise(KeyError("media"))
                 ELSE Ok(MediaQuery(media_query_dict.media, rs.val))

generic_to_node(node_dict) ==
    IF "type" \notin DOMAIN node_dict THEN Raise(KeyError("type"))
    ELSE IF node_dict.type \notin DOMAIN TO_NODE_TYPES
         THEN Raise(KeyError(node_dict.type))
    ELSE LET f == TO_NODE_TYPES[node_dict.type]
         IN  CASE f = "to_charset" -> to_charset(node_dict)
               [] f = "to_keyframes" -> to_keyframes(node_dict)
               [] f = "to_media_query" -> to_media_query(node_dict)
               [] f = "to_rule" -> to_rule(node_dict)

(***************************************************************************)
(* Rendering: the to_text methods.  kwargs is the record of the two flags. *)
(***************************************************************************)
AtCharset == <<"@", "c", "h", "a", "r", "s", "e", "t", SP>>
AtMedia == <<"@", "m", "e", "d", "i", "a", SP>>
KeyframesWord == <<"k", "e", "y", "f", "r", "a", "m", "e", "s", SP>>
OpenBrace == <<SP, "{", NL>>
CloseBrace == <<"}", NL>>

\* the flag not read
Charset_to_text_unconditional(self, kwargs) ==
    AtCharset \o self.charset \o <<";", NL>>

Charset_to_text(self, kwargs) ==
    IF kwargs.ignore_charset THEN <<>>
    ELSE AtCharset \o self.charset \o <<";", NL>>

Property_to_text(self, kwargs) ==
    FourSpaces \o self.name \o <<":", SP>> \o self.value \o <<";", NL>>

KeyFrame_to_text(self, kwargs) ==
    self.values \o OpenBrace
        \o Concat([i \in DOMAIN self.properties |->
                      Property_to_text(self.properties[i], kwargs)])
        \o CloseBrace

KeyFrames_to_text(self, kwargs) ==
    <<"@">> \o self.vendor \o KeyframesWord \o self.name \o OpenBrace
        \o indent(Concat([i \in DOMAIN self.keyframes |->
                             KeyFrame_to_text(self.keyframes[i], kwargs)]))
        \o CloseBrace

\* "or" in place of "and"
Rule_to_text_or(self, kwargs) ==
    IF kwargs.ignore_empty_rules \/ self.properties = <<>> THEN <<>>
    ELSE self.selectors \o OpenBrace
            \o Concat([i \in DOMAIN self.properties |->
                          Property_to_text(self.properties[i], kwargs)])
            \o CloseBrace

\* the flag not read
Rule_to_text_no_flag(self, kwargs) ==
    IF self.properties = <<>> THEN <<>>
    ELSE self.selectors \o OpenBrace
            \o Concat([i \in DOMAIN self.properties |->
                          Property_to_text(self.properties[i], kwargs)])
            \o CloseBrace

Rule_to_text(self, kwargs) ==
    IF kwargs.ignore_empty_rules /\ self.properties = <<>> THEN <<>>
    ELSE self.selectors \o OpenBrace
            \o Concat([i \in DOMAIN self.properties |->
                          Property_to_text(self.properties[i], kwargs)])
            \o CloseBrace

RECURSIVE to_text(_, _)
RECURSIVE MediaQuery_to_text(_, _)

MediaQuery_to_text(self, kwargs) ==
    AtMedia \o self.media \o OpenBrace
        \o indent(Concat([i \in DOMAIN self.rules |-> to_text(self.rules[i], kwargs)]))
        \o CloseBrace

\* rule.to_text(**kwargs): the method of the node's class
to_text(self, kwargs) ==
    CASE self.cls = "Charset" -> Charset_to_text(self, kwargs)
      [] self.cls = "KeyFrames" -> KeyFrames_to_text(self, kwargs)
      [] self.cls = "MediaQuery" -> MediaQuery_to_text(self, kwargs)
      [] self.cls = "Rule" -> Rule_to_text(self, kwargs)

\* ''.join(rule.to_text(...) for rule in rules)
join_rules(rs, kwargs) == Concat([i \in DOMAIN rs |-> to_text(rs[i], kwargs)])

(***************************************************************************)
(* What the parser prints: sheet['rules'], a list of dicts.                *)
(***************************************************************************)
With(d, k, v) == [x \in DOMAIN d \cup {k} |-> IF x = k THEN v ELSE d[x]]
Without(d, k) == [x \in DOMAIN d \ {k} |-> d[x]]

DeclRec(p, v) == [type |-> "declaration", property |-> p, value |-> v]
RuleRec(sels, decls) == [type |-> "rule", selectors |-> sels, declarations |-> decls]
CharsetRec(c) == [type |-> "charset", charset |-> c]
KeyframeRec(vals, decls) == [type |-> "keyframe", values |-> vals, declarations |-> decls]
KeyframesRec(name, kfs) == [type |-> "keyframes", name |-> name, keyframes |-> kfs]
MediaRec(media, rs) == [type |-> "media", media |-> media, rules |-> rs]

X == <<"x">>
Z == <<"z">>
MultiLine == <<"x", NL, "z">>
CrLfLine == <<"z", "\r", NL, "x">>
Pos == <<1, 1>>

RECURSIVE Wrap(_, _)
Wrap(node, d) == IF d = 0 THEN node ELSE MediaRec(X, <<Wrap(node, d - 1)>>)

\* records that convert
Declarations ==
    {DeclRec(X, Z), DeclRec(Z, X), With(DeclRec(Z, MultiLine), "position", Pos),
     DeclRec(X, CrLfLine)}
SelectorLists == {<<X>>, <<Z, X>>, <<X, X>>}
RuleRecs == {RuleRec(s, d) : s \in SelectorLists, d \in SeqUpTo(Declarations, MaxDecls)}
KeyframeRecs ==
    {KeyframeRec(v, d) : v \in {<<X>>, <<Z, X>>}, d \in {<<>>, <<DeclRec(X, Z)>>}}
KeyframesRecs ==
    LET plain == {KeyframesRec(X, k) : k \in SeqUpTo(KeyframeRecs, MaxFrames)}
    IN  plain \cup {With(r, "vendor", Z) : r \in plain}
CharsetRecs == {CharsetRec(X), With(CharsetRec(Z), "position", Pos)}
AllLeaves == RuleRecs \cup KeyframesRecs \cup CharsetRecs

EmptyRule == RuleRec(<<X>>, <<>>)
FullRule == RuleRec(<<Z, X>>, <<DeclRec(Z, X), DeclRec(X, Z)>>)
CoreLeaves ==
    {CharsetRec(X), EmptyRule, FullRule, KeyframesRec(X, <<>>),
     With(KeyframesRec(X, <<KeyframeRec(<<Z, X>>, <<>>),
                            KeyframeRec(<<X>>, <<DeclRec(X, Z)>>)>>), "vendor", Z)}
CoreMedias ==
    {MediaRec(X, <<>>), MediaRec(Z, <<EmptyRule>>),
     MediaRec(X, <<MediaRec(Z, <<EmptyRule, FullRule>>)>>)}

ValidTrees ==
    {<<Wrap(n, d)>> : n \in AllLeaves, d \in 0..MaxDepth}
    \cup {<<Wrap(MediaRec(Z, k), d)>> : k \in SeqUpTo(CoreLeaves, MaxKids),
                                         d \in 0..(MaxDepth - 1)}
    \cup SeqUpTo(CoreLeaves \cup CoreMedias, MaxTop)

\* records that do not convert
BadDeclarations ==
    {[type |-> "comment", comment |-> X],
     [type |-> "comment", property |-> X, value |-> Z],
     With(DeclRec(X, Z), "unexpected", X),
     Without(DeclRec(X, Z), "type"),
     With(Without(DeclRec(X, Z), "type"), "unexpected", X),
     Without(DeclRec(X, Z), "property"),
     Without(DeclRec(X, Z), "value")}
BadKeyframes ==
    {With(KeyframeRec(<<X>>, <<>>), "unexpected", X),
     Without(KeyframeRec(<<X>>, <<>>), "values"),
     Without(KeyframeRec(<<X>>, <<>>), "declarations"),
     Without(KeyframeRec(<<X>>, <<Without(DeclRec(X, Z), "value")>>), "values")}
    \cup {KeyframeRec(<<X>>, <<DeclRec(X, Z), d>>) : d \in BadDeclarations}
BadNodes ==
    {[type |-> "unknown"], [type |-> "comment", comment |-> X],
     [type |-> "declarations"], [charset |-> X],
     With(CharsetRec(X), "unexpected", X), Without(CharsetRec(X), "charset"),
     With(FullRule, "unexpected", X), Without(FullRule, "selectors"),
     Without(FullRule, "declarations"),
     With(Without(FullRule, "declarations"), "unexpected", X),
     With(MediaRec(X, <<FullRule>>), "unexpected", X),
     With(MediaRec(X, <<[type |-> "unknown"]>>), "unexpected", X),
     Without(MediaRec(X, <<FullRule>>), "media"),
     Without(MediaRec(X, <<FullRule>>), "rules"),
     Without(MediaRec(X, <<[type |-> "unknown"]>>), "media"),
     With(KeyframesRec(X, <<>>), "unexpected", X),
     Without(KeyframesRec(X, <<>>), "name"), Without(KeyframesRec(X, <<>>), "keyframes")}
    \cup {RuleRec(<<X>>, <<DeclRec(Z, X), d>>) : d \in BadDeclarations}
    \cup {KeyframesRec(X, <<KeyframeRec(<<X>>, <<>>), k>>) : k \in BadKeyframes}

InvalidTrees ==
    UNION {{<<b>>, <<FullRule, b>>, <<b, FullRule>>, <<b, [type |-> "unknown"]>>}
           \cup {<<FullRule, Wrap(MediaRec(X, <<FullRule, b>>), d)>> :
                    d \in 0..(MaxDepth - 1)} : b \in BadNodes}

(***************************************************************************)
(* main and format_css.                                                    *)
(***************************************************************************)
kwargs_now == [ignore_charset |-> ignore_charset,
               ignore_empty_rules |-> ignore_empty_rules]

Init ==
    /\ pc = "start"
    /\ caller \in {"main", "api"}
    /\ ignore_charset \in BOOLEAN
    /\ ignore_empty_rules \in BOOLEAN
    \* main calls format_css(contents): both flags take their default
    /\ caller = "main" => ~ignore_charset /\ ~ignore_empty_rules
    /\ sheet_rules \in ValidTrees \cup InvalidTrees
    /\ rules = <<>>
    /\ result = <<>>
    /\ printed = <<>>
    /\ error = NoError
    /\ text = <<>>
    /\ indented = <<>>
    /\ level = 0

\* the parser process ran: it printed the tree, or ended with a returncode
RunParser ==
    /\ pc = "start"
    /\ \E returncode \in {0, 1} :
          IF returncode # 0
          THEN pc' = "raised" /\ error' = CalledProcessError(returncode)
          ELSE pc' = "loaded" /\ error' = error
    /\ UNCHANGED <<caller, ignore_charset, ignore_empty_rules, sheet_rules, rules,
                   result, printed, text, indented, level>>

\* rules = tuple(generic_to_node(rule_dict) for rule_dict in sheet['rules'])
Convert ==
    /\ pc = "loaded"
    /\ LET r == TupleOf([i \in DOMAIN sheet_rules |-> generic_to_node(sheet_rules[i])])
       IN  IF r.ok
           THEN pc' = "converted" /\ rules' = r.val /\ error' = error
           ELSE pc' = "raised" /\ rules' = rules /\ error' = r.err
    /\ UNCHANGED <<caller, ignore_charset, ignore_empty_rules, sheet_rules,
                   result, printed, text, indented, level>>

\* return ''.join(rule.to_text(...) for rule in rules)
Return ==
    /\ pc = "converted"
    /\ result' = join_rules(rules, kwargs_now)
    /\ pc' = "returned"
    /\ UNCHANGED <<caller, ignore_charset, ignore_empty_rules, sheet_rules, rules,
                   printed, error, text, indented, level>>

\* print(format_css(contents).rstrip())
PrintResult ==
    /\ pc = "returned"
    /\ caller = "main"
    /\ printed' = rstrip(result)
    /\ pc' = "printed"
    /\ UNCHANGED <<caller, ignore_charset, ignore_empty_rules, sheet_rules, rules,
                   result, error, text, indented, level>>

Next == RunParser \/ Convert \/ Return \/ PrintResult

Spec == Init /\ [][Next]_vars

(***************************************************************************)
(* indent on its own: applied once per nesting level to a text.            *)
(***************************************************************************)
IndentChars == {"x", SP, NL, "\r"}

InitIndent ==
    /\ pc = "indent"
    /\ caller = "api"
    /\ ignore_charset = FALSE
    /\ ignore_empty_rules = FALSE
    /\ sheet_rules = <<>>
    /\ rules = <<>>
    /\ result = <<>>
    /\ printed = <<>>
    /\ error = NoError
    /\ text \in SeqUpTo(IndentChars, MaxTextLen)
    /\ indented = text
    /\ level = 0

Indent ==
    /\ pc = "indent"
    /\ level < MaxLevel
    /\ indented' = indent(indented)
    /\ level' = level + 1
    /\ UNCHANGED <<pc, caller, ignore_charset, ignore_empty_rules, sheet_rules, rules,
                   result, printed, error, text>>

NextIndent == Indent

SpecIndent == InitIndent /\ [][NextIndent]_vars

(***************************************************************************)
(* Definitions the properties are stated with.                             *)
(***************************************************************************)
Returned == pc \in {"returned", "printed"}

\* t occurs in u as a run of consecutive characters
Infix(t, u) == \E i \in 0..(Len(u) - Len(t)) : SubSeq(u, i + 1, i + Len(t)) = t

RECURSIVE IndentN(_, _)
IndentN(t, d) == IF d = 0 THEN t ELSE indent(IndentN(t, d - 1))

\* the nodes of a converted tree, each with the number of media blocks around it
RECURSIVE NodesAt(_, _)
NodesAt(ns, d) ==
    UNION {{[node |-> ns[i], depth |-> d]}
           \cup (IF ns[i].cls = "MediaQuery" THEN NodesAt(ns[i].rules, d + 1) ELSE {})
           : i \in DOMAIN ns}

IsEmptyRule(n) == n.cls = "Rule" /\ n.properties = <<>>
IsCharset(n) == n.cls = "Charset"

\* the tree without its empty rules / without its charsets, at every depth
RECURSIVE DeleteEmptyRules(_)
DeleteEmptyRules(ns) ==
    LET kept == SelectSeq(ns, LAMBDA n : ~IsEmptyRule(n))
    IN  [i \in DOMAIN kept |->
            IF kept[i].cls = "MediaQuery"
            THEN MediaQuery(kept[i].media, DeleteEmptyRules(kept[i].rules))
            ELSE kept[i]]

RECURSIVE DeleteCharsets(_)
DeleteCharsets(ns) ==
    LET kept == SelectSeq(ns, LAMBDA n : ~IsCharset(n))
    IN  [i \in DOMAIN kept |->
            IF kept[i].cls = "MediaQuery"
            THEN MediaQuery(kept[i].media, DeleteCharsets(kept[i].rules))
            ELSE kept[i]]

Flags(c, e) == [ignore_charset |-> c, ignore_empty_rules |-> e]

\* the block of a rule or keyframe written out: head, brace, one line per property
PropertyLine(p) == FourSpaces \o p.name \o <<":", SP>> \o p.value \o <<";", NL>>
BlockOf(head, properties) ==
    head \o <<SP, "{", NL>>
         \o Concat([i \in DOMAIN properties |-> PropertyLine(properties[i])])
         \o <<"}", NL>>

\* the lines of a text read character by character: a line ends at a line
\* boundary ("\r\n" being one), and the boundary is not part of the line
RECURSIVE ScanLines(_, _, _, _)
ScanLines(t, i, cur, acc) ==
    IF i > Len(t) THEN (IF cur = <<>> THEN acc ELSE Append(acc, cur))
    ELSE IF t[i] \in LineBoundaries
         THEN LET crlf == t[i] = "\r" /\ i < Len(t) /\ t[i + 1] = "\n"
              IN  ScanLines(t, IF crlf THEN i + 2 ELSE i + 1, <<>>, Append(acc, cur))
         ELSE ScanLines(t, i + 1, Append(cur, t[i]), acc)

LinesOf(t) == ScanLines(t, 1, <<>>, <<>>)

\* every line behind n spaces and ended by one "\n"
SpacedLines(lines, n) ==
    Concat([k \in DOMAIN lines |-> [j \in 1..n |-> SP] \o lines[k] \o <<NL>>])

(***************************************************************************)
(* C9: for a non-empty text made of lines that are each terminated, indent *)
(* returns the same number of lines, each the original line behind exactly *)
(* 4 spaces, the text ending in exactly one newline with no blank line     *)
(* added; applied once per nesting level, a line under d levels stands     *)
(* behind exactly 4*d spaces.  (A line is what splitlines delimits; the    *)
(* result ends every line with "\n".)                                      *)
(***************************************************************************)
C9_IndentKeepsLines ==
    (level >= 1 /\ text # <<>> /\ text[Len(text)] \in LineBoundaries)
        => /\ indented = SpacedLines(LinesOf(text), IndentWidth * level)
           /\ Len(LinesOf(indented)) = Len(LinesOf(text))
           /\ indented[Len(indented)] = NL
           /\ indented[Len(indented) - 1] # NL

C9_Witness ==
    /\ level = 2
    /\ text = <<"x", NL, NL, "x", NL>>
    /\ Len(LinesOf(indented)) = 3
    /\ SubSeq(indented, 1, 9) = <<SP, SP, SP, SP, SP, SP, SP, SP, "x">>

(***************************************************************************)
(* C1: with ignore_empty_rules the text is the text rendered without the   *)
(* flag of the same tree with every zero-property Rule deleted, at top     *)
(* level and at any depth inside MediaQuery nodes; a KeyFrame with zero    *)
(* properties and a KeyFrames with zero frames still render their block.   *)
(***************************************************************************)
C1_RemovesExactlyEmptyRules ==
    (Returned /\ ignore_empty_rules)
        => /\ result = join_rules(DeleteEmptyRules(rules), Flags(ignore_charset, FALSE))
           /\ \A n \in NodesAt(rules, 0) :
                 n.node.cls = "KeyFrames"
                     => /\ Infix(IndentN(<<"@">> \o n.node.vendor \o KeyframesWord
                                            \o n.node.name \o <<SP, "{", NL>>, n.depth),
                                 result)
                        /\ \A k \in DOMAIN n.node.keyframes :
                              Infix(IndentN(BlockOf(n.node.keyframes[k].values,
                                                    n.node.keyframes[k].properties),
                                            n.depth + 1),
                                    result)
                        /\ n.node.keyframes = <<>>
                              => Infix(IndentN(<<"@">> \o n.node.vendor \o KeyframesWord
                                                  \o n.node.name
                                                  \o <<SP, "{", NL, NL, "}", NL>>,
                                               n.depth),
                                       result)

C1_Witness ==
    /\ pc = "returned"
    /\ ignore_empty_rules
    /\ \E n \in NodesAt(rules, 0) : IsEmptyRule(n.node) /\ n.depth = 2
    /\ \E n \in NodesAt(rules, 0) : n.node.cls = "Rule" /\ ~IsEmptyRule(n.node)
    /\ \E n \in NodesAt(rules, 0) :
          /\ n.node.cls = "KeyFrames"
          /\ \E k \in DOMAIN n.node.keyframes : n.node.keyframes[k].properties = <<>>
    /\ result # join_rules(rules, Flags(ignore_charset, FALSE))

(***************************************************************************)
(* C7: without ignore_empty_rules no Rule is dropped: every Rule, at top   *)
(* level or nested in MediaQuery nodes, has its block in the output, and a *)
(* Rule with no property renders as its selectors, " {", a newline, "}"    *)
(* and a newline.                                                          *)
(***************************************************************************)
C7_NeverDropsRule ==
    (Returned /\ ~ignore_empty_rules)
        => \A n \in NodesAt(rules, 0) :
              n.node.cls = "Rule"
                  => /\ Infix(IndentN(BlockOf(n.node.selectors, n.node.properties),
                                      n.depth),
                              result)
                     /\ n.node.properties = <<>>
                           => Rule_to_text(n.node, kwargs_now)
                                 = n.node.selectors \o <<SP, "{", NL, "}", NL>>

C7_Witness ==
    /\ pc = "returned"
    /\ ~ignore_empty_rules
    /\ \E n \in NodesAt(rules, 0) : IsEmptyRule(n.node) /\ n.depth = 1
    /\ \E n \in NodesAt(rules, 0) : IsEmptyRule(n.node) /\ n.depth = 0

(***************************************************************************)
(* C8: with ignore_charset every Charset node, at top level or inside a    *)
(* MediaQuery, renders as the empty text; without it, as "@charset ", its  *)
(* value, ";" and a newline; the flag changes the text of no other kind of *)
(* node.                                                                   *)
(***************************************************************************)
C8_CharsetFlag ==
    Returned
        => /\ \A n \in NodesAt(rules, 0) :
                 IsCharset(n.node)
                     => /\ Charset_to_text(n.node, Flags(TRUE, ignore_empty_rules)) = <<>>
                        /\ Charset_to_text(n.node, Flags(FALSE, ignore_empty_rules))
                              = <<"@", "c", "h", "a", "r", "s", "e", "t", SP>>
                                   \o n.node.charset \o <<";", NL>>
                        /\ ~ignore_charset
                              => Infix(IndentN(<<"@", "c", "h", "a", "r", "s", "e", "t", SP>>
                                                  \o n.node.charset \o <<";", NL>>,
                                               n.depth),
                                       result)
           /\ ignore_charset
                 => result = join_rules(DeleteCharsets(rules),
                                        Flags(FALSE, ignore_empty_rules))
           /\ \A n \in NodesAt(DeleteCharsets(rules), 0) :
                 to_text(n.node, Flags(TRUE, ignore_empty_rules))
                     = to_text(n.node, Flags(FALSE, ignore_empty_rules))

C8_Witness ==
    /\ pc = "returned"
    /\ ignore_charset
    /\ \E n \in NodesAt(rules, 0) : IsCharset(n.node) /\ n.depth = 1
    /\ \E n \in NodesAt(rules, 0) : ~IsCharset(n.node) /\ n.depth = 1
    /\ result # join_rules(rules, Flags(FALSE, ignore_empty_rules))

\* the characters of the input strings, in a text
AtomChars == {"x", "z"}
Atoms(t) == SelectSeq(t, LAMBDA c : c \in AtomChars)

\* the input strings of an untyped tree in reading order, leaving out what
\* the flags leave out
DeclAtoms(decls) ==
    Concat([i \in DOMAIN decls |-> Atoms(decls[i].property \o decls[i].value)])

RECURSIVE InputAtoms(_, _)
InputAtoms(nodes, kwargs) ==
    Concat([i \in DOMAIN nodes |->
        LET d == nodes[i]
        IN  CASE d.type = "charset" ->
                    IF kwargs.ignore_charset THEN <<>> ELSE Atoms(d.charset)
              [] d.type = "rule" ->
                    IF kwargs.ignore_empty_rules /\ d.declarations = <<>> THEN <<>>
                    ELSE Atoms(Concat(d.selectors)) \o DeclAtoms(d.declarations)
              [] d.type = "keyframes" ->
                    (IF "vendor" \in DOMAIN d THEN Atoms(d.vendor) ELSE <<>>)
                        \o Atoms(d.name)
                        \o Concat([k \in DOMAIN d.keyframes |->
                                      Atoms(Concat(d.keyframes[k].values))
                                          \o DeclAtoms(d.keyframes[k].declarations)])
              [] d.type = "media" -> Atoms(d.media) \o InputAtoms(d.rules, kwargs)])

(***************************************************************************)
(* C10: order is kept from the untyped input to the output text: the       *)
(* top-level nodes, the rules of a media block, the keyframes of a         *)
(* keyframes block, the properties of a rule or keyframe and the joined    *)
(* selectors and values come out in their input order, duplicates kept,    *)
(* under every combination of the flags.                                   *)
(***************************************************************************)
C10_OrderPreserved ==
    Returned => Atoms(result) = InputAtoms(sheet_rules, kwargs_now)

C10_Witness ==
    /\ pc = "returned"
    /\ Len(sheet_rules) = 2
    /\ sheet_rules[1] = FullRule
    /\ sheet_rules[2] = MediaRec(X, <<MediaRec(Z, <<EmptyRule, FullRule>>)>>)
    /\ ignore_empty_rules
    /\ Atoms(result) = <<"z", "x", "z", "x", "x", "z", "x", "z", "z", "x", "z", "x", "x", "z">>

(***************************************************************************)
(* C2: format_css returns the renderings of the top-level nodes joined in  *)
(* order with the trailing whitespace stripped once from the whole: under  *)
(* every flag combination the returned text does not end in whitespace.    *)
(* As claimed:                                                             *)
(***************************************************************************)
C2_ReturnedTextStripped ==
    Returned => (result = <<>> \/ result[Len(result)] \notin Whitespace)

\* C2 as it holds: format_css returns the joined renderings as they are (a
\* non-empty text ends in its last node's newline); main strips the trailing
\* whitespace once from the whole text before printing it, so the text main
\* prints, and only that, does not end in whitespace.
C2_MainStripsOnce ==
    /\ Returned =>
          /\ result = Concat([i \in DOMAIN rules |-> to_text(rules[i], kwargs_now)])
          /\ result # <<>> => result[Len(result)] = NL
    /\ pc = "printed" =>
          /\ printed = <<>> \/ printed[Len(printed)] \notin Whitespace
          /\ Len(printed) <= Len(result)
          /\ SubSeq(result, 1, Len(printed)) = printed
          /\ \A i \in (Len(printed) + 1)..Len(result) : result[i] \in Whitespace

C2_Witness ==
    /\ pc = "printed"
    /\ Len(rules) = 2
    /\ printed # <<>>
    /\ Len(printed) < Len(result)
    /\ \E i \in DOMAIN printed : printed[i] = NL

(***************************************************************************)
(* The records of an untyped tree, each with the converter it is handed    *)
(* to: "declaration" and "keyframe" by position, the others by their type; *)
(* "none" when the type is missing or has no converter.                    *)
(***************************************************************************)
Fields(kind) ==
    CASE kind = "charset" -> {"charset"}
      [] kind = "keyframes" -> {"vendor", "name", "keyframes"}
      [] kind = "keyframe" -> {"declarations", "values"}
      [] kind = "media" -> {"media", "rules"}
      [] kind = "rule" -> {"selectors", "declarations"}
      [] kind = "declaration" -> {"property", "value"}
      [] kind = "none" -> {}

\* the keys a converter reads with d[key]
Required(kind) ==
    CASE kind = "charset" -> {"charset"}
      [] kind = "keyframes" -> {"name", "keyframes"}
      [] kind = "keyframe" -> {"declarations", "values"}
      [] kind = "media" -> {"media", "rules"}
      [] kind = "rule" -> {"selectors", "declarations"}
      [] kind = "declaration" -> {"type", "property", "value"}
      [] kind = "none" -> {"type"}

ConvertAs(kind, d) ==
    CASE kind = "charset" -> to_charset(d)
      [] kind = "keyframes" -> to_keyframes(d)
      [] kind = "keyframe" -> to_keyframe(d)
      [] kind = "media" -> to_media_query(d)
      [] kind = "rule" -> to_rule(d)
      [] kind = "declaration" -> to_property(d)
      [] kind = "none" -> generic_to_node(d)

KindOf(d) ==
    IF "type" \in DOMAIN d /\ d.type \in {"charset", "keyframes", "media", "rule"}
    THEN d.type ELSE "none"

Children(d, key) == IF key \in DOMAIN d THEN {d[key][i] : i \in DOMAIN d[key]} ELSE {}

RECURSIVE RecordsOf(_, _)
RecordsOf(kind, d) ==
    {[kind |-> kind, rec |-> d]}
    \cup CASE kind = "rule" ->
                UNION {RecordsOf("declaration", c) : c \in Children(d, "declarations")}
           [] kind = "keyframe" ->
                UNION {RecordsOf("declaration", c) : c \in Children(d, "declarations")}
           [] kind = "keyframes" ->
                UNION {RecordsOf("keyframe", c) : c \in Children(d, "keyframes")}
           [] kind = "media" ->
                UNION {RecordsOf(KindOf(c), c) : c \in Children(d, "rules")}
           [] OTHER -> {}

TreeRecords == UNION {RecordsOf(KindOf(sheet_rules[i]), sheet_rules[i]) : i \in DOMAIN sheet_rules}

HasExtraKey(r) == ~(DOMAIN r.rec \subseteq Fields(r.kind) \cup {"position", "type"})
HasWrongType(r) ==
    r.kind = "declaration" /\ "type" \in DOMAIN r.rec /\ r.rec.type # "declaration"
HasUnknownType(r) == r.kind = "none" /\ "type" \in DOMAIN r.rec
Lacks(r, key) == key \in Required(r.kind) /\ key \notin DOMAIN r.rec

\* format_css is past the conversion
Converted == pc \in {"converted", "returned", "printed"}
ConversionFailed == pc = "raised" /\ error.exc # "CalledProcessError"

(***************************************************************************)
(* C3: for every kind of record built through a converter (charset,        *)
(* keyframes, keyframe, media, rule, declaration), a record with a key     *)
(* outside the kind's declared fields plus position and type fails with a  *)
(* SchemaViolation (the AssertionError) and no node is produced; with all  *)
(* keys inside that set the key check does not fail.  As claimed:          *)
(***************************************************************************)
C3_ExtraKeyIsSchemaViolation ==
    (Converted \/ ConversionFailed)
        => \A r \in TreeRecords :
              r.kind # "none"
                  => /\ HasExtraKey(r)
                           => /\ ~ConvertAs(r.kind, r.rec).ok
                              /\ ConvertAs(r.kind, r.rec).err.exc = "AssertionError"
                     /\ ~HasExtraKey(r) => _check_keys(r.rec, Fields(r.kind)).ok

\* C3 as it holds: the same, except that a declaration record without a type
\* key fails with KeyError('type') before its keys are checked; in every
\* case no node is produced and format_css returns nothing.
C3_ExtraKeyFails ==
    /\ (Converted \/ ConversionFailed) => \A r \in TreeRecords :
          r.kind # "none"
              => /\ HasExtraKey(r)
                       => /\ ~ConvertAs(r.kind, r.rec).ok
                          /\ IF r.kind = "declaration" /\ "type" \notin DOMAIN r.rec
                             THEN ConvertAs(r.kind, r.rec).err = KeyError("type")
                             ELSE ConvertAs(r.kind, r.rec).err.exc = "AssertionError"
                 /\ ~HasExtraKey(r) => _check_keys(r.rec, Fields(r.kind)).ok
    /\ (\E r \in TreeRecords : r.kind # "none" /\ HasExtraKey(r))
          => ~Converted /\ rules = <<>> /\ result = <<>>

C3_Witness ==
    /\ pc = "raised"
    /\ error.exc = "AssertionError"
    /\ "got" \in DOMAIN error
    /\ error.got = {"type", "values", "declarations", "unexpected"}
    /\ \E r \in TreeRecords : r.kind = "keyframe" /\ HasExtraKey(r)
    /\ \E r \in TreeRecords : r.kind = "keyframe" /\ ~HasExtraKey(r)

(***************************************************************************)
(* C4: a node whose type has no registered converter fails with            *)
(* UnknownNodeType (the KeyError of the TO_NODE_TYPES lookup), and the     *)
(* failure of one node, at top level or nested at any depth in media       *)
(* nodes, aborts the whole format operation: no text is returned, however  *)
(* many earlier siblings converted.                                        *)
(***************************************************************************)
C4_FailureAbortsAll ==
    /\ \A r \in TreeRecords :
          HasUnknownType(r) => generic_to_node(r.rec) = Raise(KeyError(r.rec.type))
    /\ (\E r \in TreeRecords : ~ConvertAs(r.kind, r.rec).ok)
          => ~Converted /\ rules = <<>> /\ result = <<>> /\ printed = <<>>
    /\ pc = "raised" => rules = <<>> /\ result = <<>> /\ printed = <<>>
    /\ (pc = "raised" /\ error.exc = "KeyError" /\ \A r \in TreeRecords : ~Lacks(r, error.key))
          => \E r \in TreeRecords : HasUnknownType(r) /\ error.key = r.rec.type

C4_Witness ==
    /\ pc = "raised"
    /\ error = KeyError("unknown")
    /\ Len(sheet_rules) = 2
    /\ generic_to_node(sheet_rules[1]).ok
    /\ sheet_rules[2] = MediaRec(X, <<MediaRec(X, <<FullRule, [type |-> "unknown"]>>)>>)

(***************************************************************************)
(* C5: the builder has two kinds of error only: every failure to convert   *)
(* an untyped tree is a SchemaViolation (keys outside the schema, or a     *)
(* declaration whose type is not "declaration") or an UnknownNodeType (a   *)
(* type with no registered converter); a record lacking a required field   *)
(* fails with one of the two.  As claimed:                                 *)
(***************************************************************************)
C5_TwoErrorKindsOnly ==
    ConversionFailed
        => \/ /\ error.exc = "AssertionError"
              /\ \E r \in TreeRecords : HasExtraKey(r) \/ HasWrongType(r)
           \/ /\ error.exc = "KeyError"
              /\ \E r \in TreeRecords : HasUnknownType(r) /\ error.key = r.rec.type

\* C5 as it holds: a failure is an AssertionError (keys outside the schema,
\* or a declaration whose type is not "declaration") or a KeyError; the
\* KeyError is raised for a type with no registered converter and also for a
\* record that lacks a key its converter reads (a required field, or the
\* type of a node or declaration), and then carries the missing key: a third
\* cause, raised as the same exception class as the unknown type.
C5_ThreeCauses ==
    /\ ConversionFailed
          => \/ /\ error.exc = "AssertionError"
                /\ \E r \in TreeRecords : HasExtraKey(r) \/ HasWrongType(r)
             \/ /\ error.exc = "KeyError"
                /\ \E r \in TreeRecords : HasUnknownType(r) /\ error.key = r.rec.type
             \/ /\ error.exc = "KeyError"
                /\ \E r \in TreeRecords : Lacks(r, error.key)
    /\ (\E r \in TreeRecords : \E key \in Required(r.kind) : Lacks(r, key))
          => ~Converted

C5_Witness ==
    /\ pc = "raised"
    /\ error = KeyError("declarations")
    /\ sheet_rules = <<FullRule, Without(FullRule, "declarations")>>

====
